---- MODULE Spec2Model ----
(***************************************************************************)
(* Job orchestration core of lm-fine-tuning: the JSON-file job registry    *)
(* (tools/storage.py), job creation and cost estimation                    *)
(* (tools/training.py) and status polling / cancellation                   *)
(* (tools/monitoring.py), run by two server processes (mcp-server/server.py*)
(* and app/dashboard/api/server.py) that share one registry file and one   *)
(* workflow-dispatch backend.                                              *)
(***************************************************************************)
EXTENDS Integers, Sequences, FiniteSets, TLC

\* ---- bounds of the model ------------------------------------------------
MaxRuns == 2      \* workflow runs the backend ever creates
MaxOps == 2       \* requests the two servers accept in one behaviour
MaxClock == 2     \* clock readings told apart; later readings repeat the last

\* ---- vocabulary ---------------------------------------------------------
NoRun == 0        \* latest_run.get("id") of an empty run listing (None)

GhPrefix == "gh-"
HfPrefix == "hf-job-"

Terminal_WithUnknown == {"completed", "failed", "cancelled", "unknown"}

Terminal == {"completed", "failed", "cancelled"}

Statuses == {"pending", "running", "completed", "failed", "cancelled", "unknown"}

\* two request handlers in flight; asyncio runs the handlers of one server
\* process on one thread, the two server processes run in parallel
Tasks == {"h1", "h2"}

Procs == {"mcp", "dashboard"}

\* both handlers in the MCP server, or one in each server
Layouts ==
  {[t \in Tasks |-> "mcp"],
   [t \in Tasks |-> IF t = "h1" THEN "mcp" ELSE "dashboard"]}

VARIABLES
  file,      \* content of the registry file on disk: [torn, jobs]
  durable,   \* the record list of the last write that was completed
  runs,      \* backend: number of workflow runs of the repository (ids 1..runs)
  queued,    \* backend: dispatches accepted whose run does not exist yet
  now,       \* the UTC clock: the value the next datetime.utcnow() returns
  env,       \* environment of the servers: GH_TOKEN, HF Jobs API, BUDGET_LIMIT_USD
  procOf,    \* the server process each handler runs in
  ops,       \* requests accepted so far
  cancelled, \* ids for which a cancel_job call has written status cancelled
  ret,       \* what the last step returned to its caller, if it returned
  task       \* per handler: position, arguments, locals and result

vars == <<file, durable, runs, queued, now, env, procOf, ops, cancelled, ret, task>>

\* ---- job ids --------------------------------------------------------------
GhId(r) == [ns |-> GhPrefix, ref |-> r]

HfId(ts) == [ns |-> HfPrefix, ref |-> ts]

StartsWithGh(id) == id.ns = GhPrefix

RunIdOf(id) == id.ref

\* ---- the registry file ----------------------------------------------------
ReadJobs(f) == IF f.torn THEN << >> ELSE f.jobs

Truncated == [torn |-> TRUE, jobs |-> << >>]

Written(jobs) == [torn |-> FALSE, jobs |-> jobs]

IndexOf(jobs, id) ==
  IF \E i \in 1..Len(jobs) : jobs[i].job_id = id
  THEN CHOOSE i \in 1..Len(jobs) :
         /\ jobs[i].job_id = id
         /\ \A j \in 1..(i - 1) : jobs[j].job_id # id
  ELSE 0

GetJob_FirstRecord(jobs, id) == IF Len(jobs) > 0 THEN 1 ELSE 0

GetJob(jobs, id) == IndexOf(jobs, id)

\* the status recorded for id in a record list, for stating the properties
Has(jobs, id) == \E i \in 1..Len(jobs) : jobs[i].job_id = id

StoredStatus(jobs, id) ==
  IF Has(jobs, id)
  THEN LET i == CHOOSE k \in 1..Len(jobs) :
                  /\ jobs[k].job_id = id
                  /\ \A j \in 1..(k - 1) : jobs[j].job_id # id
       IN jobs[i].status
  ELSE "absent"

Merge(job, updates) ==
  [k \in DOMAIN job |-> IF k \in DOMAIN updates THEN updates[k] ELSE job[k]]

UpdateJob_AllRecords(jobs, id, updates, ts) ==
  LET i == IndexOf(jobs, id) IN
  IF i = 0 THEN jobs
  ELSE [j \in 1..Len(jobs) |-> [Merge(jobs[j], updates) EXCEPT !.updated_at = ts]]

UpdateJob(jobs, id, updates, ts) ==
  LET i == IndexOf(jobs, id) IN
  IF i = 0 THEN jobs
  ELSE [jobs EXCEPT ![i] = [Merge(jobs[i], updates) EXCEPT !.updated_at = ts]]

CreateRecord(jobs, job_data, ts) ==
  Append(jobs, [job_data EXCEPT !.created_at = ts, !.updated_at = ts])

\* ---- cost estimator (money in cents, rates in hundredths of a step/s) -----
Contains(s, sub) ==
  \E i \in 0..(Len(s) - Len(sub)) : \A j \in 1..Len(sub) : s[i + j] = sub[j]

RoundHalfEven(n, d) ==
  LET q == n \div d
      r == n % d
  IN IF 2 * r < d THEN q
     ELSE IF 2 * r > d THEN q + 1
     ELSE IF q % 2 = 0 THEN q ELSE q + 1

hardware_costs(hardware) ==
  CASE hardware = "t4-small" -> 75
    [] hardware = "t4-medium" -> 100
    [] hardware = "a10g-small" -> 150
    [] hardware = "a10g-large" -> 250
    [] hardware = "a100-large" -> 500
    [] OTHER -> 100

steps_per_second(hardware) ==
  CASE hardware = "t4-small" -> 20
    [] hardware = "t4-medium" -> 25
    [] hardware = "a10g-small" -> 30
    [] hardware = "a10g-large" -> 40
    [] hardware = "a100-large" -> 60
    [] OTHER -> 20

SizeMultiplier(model) ==
  IF Contains(model, <<"7", "B">>) \/ Contains(model, <<"7", "b">>) THEN 3
  ELSE IF Contains(model, <<"3", "B">>) \/ Contains(model, <<"3", "b">>) THEN 5
  ELSE IF Contains(model, <<"1", ".", "5", "B">>)
          \/ Contains(model, <<"1", ".", "5", "b">>) THEN 7
  ELSE 10

estimate_dataset_size(dataset, hf) ==
  IF hf THEN 10000
  ELSE CASE dataset = "open-r1/codeforces-cots" -> 5000
         [] dataset = "openai/gsm8k" -> 7500
         [] dataset = "Anthropic/hh-rlhf" -> 160000
         [] OTHER -> 10000

estimate_cost_EpochsDivided(p, hf) ==
  LET ds == estimate_dataset_size(p.dataset, hf)
      sps == steps_per_second(p.hardware) * SizeMultiplier(p.model)
  IN [estimated_cost_usd |->
        RoundHalfEven(hardware_costs(p.hardware) * ds,
                      p.config.batch_size * sps * 36 * p.config.epochs),
      estimated_time_minutes |->
        RoundHalfEven(ds * 5, p.config.batch_size * sps * 3 * p.config.epochs)]

estimate_cost(p, hf) ==
  LET ds == estimate_dataset_size(p.dataset, hf)
      sps == steps_per_second(p.hardware) * SizeMultiplier(p.model)
  IN [estimated_cost_usd |->
        RoundHalfEven(hardware_costs(p.hardware) * ds * p.config.epochs,
                      p.config.batch_size * sps * 36),
      estimated_time_minutes |->
        RoundHalfEven(ds * p.config.epochs * 5, p.config.batch_size * sps * 3)]

ExceedsBudget_Flipped(cost, budget_limit) == cost < budget_limit

ExceedsBudget(cost, budget_limit) == cost > budget_limit

\* ---- backend status mapper -------------------------------------------------
MapStatus_Passthrough(gh_status, gh_conclusion) ==
  IF gh_status = "completed"
  THEN IF gh_conclusion = "success" THEN "completed" ELSE "failed"
  ELSE gh_status

MapStatus(gh_status, gh_conclusion) ==
  IF gh_status = "completed"
  THEN IF gh_conclusion = "success" THEN "completed"
       ELSE IF gh_conclusion \in {"failure", "cancelled", "timed_out"} THEN "failed"
       ELSE "failed"
  ELSE IF gh_status \in {"queued", "waiting"} THEN "pending"
  ELSE IF gh_status = "in_progress" THEN "running"
  ELSE "unknown"

\* ---- workflow-dispatch backend (external service) ---------------------------
Raw(s, c) == [status |-> s, conclusion |-> c]

\* what the run query may report: a run is queued, runs, completes, and may
\* be re-run under the same run id, so no report is excluded by an earlier one;
\* "None" is a field the answer does not carry
RawReplies ==
  {Raw("None", "None"), Raw("requested", "None"), Raw("queued", "None"),
   Raw("waiting", "None"), Raw("in_progress", "None"),
   Raw("completed", "success"), Raw("completed", "failure"),
   Raw("completed", "cancelled"), Raw("completed", "timed_out"),
   Raw("completed", "neutral"), Raw("completed", "None")}

LatestRunId(n) == IF n = 0 THEN NoRun ELSE n

RunExists(r) == r \in 1..runs

\* ---- environment and inputs ---------------------------------------------------
DefaultBudget == 100000   \* BUDGET_LIMIT_USD default of 1000 USD, in cents

EnvChoices ==
  {[token |-> TRUE, hf_api |-> FALSE, hf_jobs |-> FALSE, budget |-> 20],
   [token |-> FALSE, hf_api |-> FALSE, hf_jobs |-> FALSE, budget |-> DefaultBudget],
   [token |-> TRUE, hf_api |-> TRUE, hf_jobs |-> TRUE, budget |-> DefaultBudget]}

Params(model, dataset, method, hardware, epochs, batch_size) ==
  [model |-> model, dataset |-> dataset, method |-> method, hardware |-> hardware,
   config |-> [epochs |-> epochs, batch_size |-> batch_size]]

SmallJob ==
  Params(<<"0", ".", "5", "B">>, "open-r1/codeforces-cots", "sft", "t4-small", 3, 8)

CreateInputs ==
  {SmallJob,
   Params(<<"7", "B">>, "Anthropic/hh-rlhf", "dpo", "a100-large", 20, 1),
   Params(<< >>, "openai/gsm8k", "sft", "t4-small", 3, 8),
   Params(<<"0", ".", "5", "B">>, "", "sft", "t4-small", 3, 8),
   Params(<<"0", ".", "5", "B">>, "openai/gsm8k", "", "t4-small", 3, 8),
   Params(<<"0", ".", "5", "B">>, "openai/gsm8k", "sft", "", 3, 8)}

AllPresent_ModelOnly(p) == p.model # << >>

AllPresent(p) ==
  /\ p.model # << >>
  /\ p.dataset # ""
  /\ p.method # ""
  /\ p.hardware # ""

JobIds == {GhId(NoRun), GhId(1), GhId(2), HfId(0)}

\* ---- handlers -------------------------------------------------------------------
NoId == GhId(NoRun)

NoRes == [kind |-> "none"]

NoRet == [t |-> "none", op |-> "none", id |-> NoId, arg |-> << >>, calls |-> 0,
          res |-> NoRes]

Idle ==
  [pc |-> "idle", op |-> "none", id |-> NoId, arg |-> << >>, st |-> "none",
   data |-> << >>, buf |-> << >>, res |-> NoRes, calls |-> 0]

Begin(op, id, arg) == [Idle EXCEPT !.op = op, !.id = id, !.arg = arg]

Error(err) == [kind |-> "error", error |-> err]

\* the handler goes on: it is suspended in an await or inside a registry write
Goes(t, tk) ==
  /\ task' = [task EXCEPT ![t] = tk]
  /\ ret' = NoRet
  /\ UNCHANGED cancelled

\* the handler returns res (or raises, res being the error) and is gone
Returns(t, tk, res) ==
  /\ task' = [task EXCEPT ![t] = Idle]
  /\ ret' = [t |-> t, op |-> tk.op, id |-> tk.id, arg |-> tk.arg, calls |-> tk.calls,
             res |-> res]
  /\ cancelled' = IF tk.op = "cancel" /\ tk.pc = "w_close"
                  THEN cancelled \cup {tk.id}
                  ELSE cancelled

\* inside a synchronous registry call: no other handler of the process runs
SyncPcs == {"w_open", "w_close"}

CanRun(t) ==
  \A u \in Tasks \ {t} : procOf[u] = procOf[t] => task[u].pc \notin SyncPcs

Ready(t) ==
  /\ CanRun(t)
  /\ task[t].pc = "idle"
  /\ ops < MaxOps
  /\ ops' = ops + 1

At(t, pc) == CanRun(t) /\ task[t].pc = pc

\* datetime.utcnow() was read: the clock has moved on
Tick == now' = IF now < MaxClock THEN now + 1 ELSE now

\* ---- answers of the backend to a request ---------------------------------------
Reply(ok, raw) == [ok |-> ok, raw |-> raw]

FailedReply == Reply(FALSE, Raw("None", "None"))

\* run query and cancel request: an error (no such run, network, auth), or
\* for a run the backend knows an answer with the run's raw state
RunReplies(id) ==
  {FailedReply} \cup
  (IF RunExists(RunIdOf(id)) THEN {Reply(TRUE, raw) : raw \in RawReplies} ELSE {})

CancelReplies(id) ==
  {FailedReply} \cup
  (IF RunExists(RunIdOf(id)) THEN {Reply(TRUE, Raw("None", "None"))} ELSE {})

DispatchReplies ==
  {FailedReply} \cup
  (IF runs + queued < MaxRuns THEN {Reply(TRUE, Raw("None", "None"))} ELSE {})

RaiseForStatus_Skipped(reply) == FALSE

\* response.raise_for_status()
RaiseForStatus(reply) == ~reply.ok

\* _write_jobs: open(path, 'w') truncates the file ...
WriteOpen(t) ==
  /\ At(t, "w_open")
  /\ file' = Truncated
  /\ Goes(t, [task[t] EXCEPT !.pc = "w_close"])
  /\ UNCHANGED <<durable, runs, queued, now, env, procOf, ops>>

\* ... and the with block's close flushes json.dump's output at offset 0; when
\* another process completed a longer write since the truncation, its tail
\* stays behind the shorter output and the file no longer parses
WriteClose(t) ==
  /\ At(t, "w_close")
  /\ file' = IF ~file.torn /\ Len(task[t].buf) < Len(file.jobs)
             THEN Truncated
             ELSE Written(task[t].buf)
  /\ durable' = task[t].buf
  /\ Returns(t, task[t], task[t].res)
  /\ UNCHANGED <<runs, queued, now, env, procOf, ops>>

\* ---- TrainingTools.create_job ---------------------------------------------------
JobData_OtherEstimate(p, est) ==
  [job_id |-> NoId, status |-> "pending", model |-> p.model, dataset |-> p.dataset,
   method |-> p.method, hardware |-> p.hardware, config |-> p.config,
   estimated_cost_usd |-> est.estimated_cost_usd + 1,
   estimated_time_minutes |-> est.estimated_time_minutes,
   workflow_url |-> NoRun, backend |-> "github_actions",
   created_at |-> 0, updated_at |-> 0]

JobData(p, est) ==
  [job_id |-> NoId, status |-> "pending", model |-> p.model, dataset |-> p.dataset,
   method |-> p.method, hardware |-> p.hardware, config |-> p.config,
   estimated_cost_usd |-> est.estimated_cost_usd,
   estimated_time_minutes |-> est.estimated_time_minutes,
   workflow_url |-> NoRun, backend |-> "github_actions",
   created_at |-> 0, updated_at |-> 0]

Submitted(id, method, data) ==
  [kind |-> "submitted", job_id |-> id, method |-> method,
   estimated_cost |-> data.estimated_cost_usd,
   estimated_time_minutes |-> data.estimated_time_minutes]

Rejected(cost, budget_limit) ==
  [kind |-> "rejected", estimated_cost |-> cost, budget_limit |-> budget_limit]

\* validation, estimate, budget gate, primary backend, then the dispatch request
CreateJob(t, p) ==
  /\ Ready(t)
  /\ LET tk == Begin("create", NoId, <<p>>)
         est == estimate_cost(p, env.hf_api)
         data == JobData(p, est)
     IN IF ~AllPresent(p) THEN Returns(t, tk, Error("ValidationError"))
        ELSE IF ExceedsBudget(est.estimated_cost_usd, env.budget)
        THEN Returns(t, tk, Rejected(est.estimated_cost_usd, env.budget))
        ELSE IF env.hf_jobs
        THEN Returns(t, tk, Submitted(HfId(now), "hf_jobs", data))
        ELSE IF env.token
        THEN Goes(t, [tk EXCEPT !.pc = "dispatch_wait", !.data = <<data>>, !.calls = 1])
        ELSE Returns(t, tk, Error("NoBackendAvailable"))
  /\ IF AllPresent(p)
        /\ ~ExceedsBudget(estimate_cost(p, env.hf_api).estimated_cost_usd, env.budget)
        /\ env.hf_jobs
     THEN Tick
     ELSE UNCHANGED now
  /\ UNCHANGED <<file, durable, runs, queued, env, procOf>>

\* the dispatch POST is answered: raise_for_status, then the run listing request
DispatchReply(t, reply) ==
  /\ At(t, "dispatch_wait")
  /\ IF RaiseForStatus(reply)
     THEN /\ Returns(t, task[t], Error("BackendCallFailed"))
          /\ UNCHANGED queued
     ELSE /\ queued' = queued + 1
          /\ Goes(t, [task[t] EXCEPT !.pc = "list_wait", !.calls = 2])
  /\ UNCHANGED <<file, durable, runs, now, env, procOf, ops>>

\* the run listing is answered: the newest run of the repository is taken
ListReply(t) ==
  /\ At(t, "list_wait")
  /\ \/ Returns(t, task[t], Error("BackendCallFailed"))
     \/ LET latest == LatestRunId(runs)
        IN Goes(t, [task[t] EXCEPT
                      !.pc = "create_write",
                      !.id = GhId(latest),
                      !.data = <<[@[1] EXCEPT !.job_id = GhId(latest),
                                              !.workflow_url = latest]>>])
  /\ UNCHANGED <<file, durable, runs, queued, now, env, procOf, ops>>

\* storage.create_job: read, stamp, append (the write follows)
CreateWrite(t) ==
  /\ At(t, "create_write")
  /\ LET data == task[t].data[1]
     IN Goes(t, [task[t] EXCEPT
                   !.pc = "w_open",
                   !.data = << >>,
                   !.buf = CreateRecord(ReadJobs(file), data, now),
                   !.res = Submitted(data.job_id, "github_actions", data)])
  /\ Tick
  /\ UNCHANGED <<file, durable, runs, queued, env, procOf, ops>>

\* ---- MonitoringTools.get_status ---------------------------------------------------
StatusResult(id, status, jobs) ==
  [kind |-> "status", job_id |-> id, status |-> status,
   model |-> IF GetJob(jobs, id) = 0 THEN << >> ELSE jobs[GetJob(jobs, id)].model]

HfStatusResult(id) ==
  [kind |-> "status", job_id |-> id, status |-> "running",
   model |-> <<"0", ".", "5", "B">>]

\* routing on the id prefix; the workflow branch sends the run query
GetStatus(t, id) ==
  /\ Ready(t)
  /\ LET tk == Begin("status", id, << >>)
     IN IF ~StartsWithGh(id) THEN Returns(t, tk, HfStatusResult(id))
        ELSE IF ~env.token THEN Returns(t, tk, Error("TokenMissing"))
        ELSE Goes(t, [tk EXCEPT !.pc = "poll_wait", !.calls = 1])
  /\ UNCHANGED <<file, durable, runs, queued, now, env, procOf>>

\* the run query is answered: raise_for_status, then the status mapping
PollReply(t, reply) ==
  /\ At(t, "poll_wait")
  /\ IF RaiseForStatus(reply)
     THEN Returns(t, task[t], Error("BackendCallFailed"))
     ELSE Goes(t, [task[t] EXCEPT
                     !.pc = "poll_write",
                     !.arg = <<StoredStatus(durable, task[t].id)>>,
                     !.st = MapStatus(reply.raw.status, reply.raw.conclusion)])
  /\ UNCHANGED <<file, durable, runs, queued, now, env, procOf, ops>>

\* storage.get_job for the metadata, then storage.update_job with the status
PollWrite(t) ==
  /\ At(t, "poll_write")
  /\ LET jobs == ReadJobs(file)
         res == StatusResult(task[t].id, task[t].st, jobs)
     IN IF GetJob(jobs, task[t].id) = 0
        THEN Returns(t, task[t], res) /\ UNCHANGED now
        ELSE /\ Goes(t, [task[t] EXCEPT
                           !.pc = "w_open", !.res = res,
                           !.buf = UpdateJob(jobs, task[t].id, [status |-> task[t].st], now)])
             /\ Tick
  /\ UNCHANGED <<file, durable, runs, queued, env, procOf, ops>>

\* ---- MonitoringTools.cancel_job ---------------------------------------------------
CancelResult(id, success, message) ==
  [kind |-> "cancel", job_id |-> id, success |-> success, message |-> message]

AlreadyResult(id, status) == CancelResult(id, FALSE, <<"Job is already", status>>)

\* lookup, terminal-state check, then the cancel request of the workflow branch
CancelJob(t, id) ==
  /\ Ready(t)
  /\ LET tk == Begin("cancel", id, << >>)
         jobs == ReadJobs(file)
         i == GetJob(jobs, id)
     IN IF i = 0 THEN Returns(t, tk, Error("NotFound"))
        ELSE IF jobs[i].status \in Terminal
        THEN Returns(t, tk, AlreadyResult(id, jobs[i].status))
        ELSE IF ~StartsWithGh(id) THEN Returns(t, tk, Error("NotImplemented"))
        ELSE IF ~env.token THEN Returns(t, tk, Error("TokenMissing"))
        ELSE Goes(t, [tk EXCEPT !.pc = "cancel_wait", !.calls = 1])
  /\ UNCHANGED <<file, durable, runs, queued, now, env, procOf>>

\* the cancel POST is answered: raise_for_status (no such run, run already
\* completed, network or auth error), or the backend accepted the request
CancelReply(t, reply) ==
  /\ At(t, "cancel_wait")
  /\ IF RaiseForStatus(reply)
     THEN Returns(t, task[t], Error("BackendCallFailed"))
     ELSE Goes(t, [task[t] EXCEPT !.pc = "cancel_write"])
  /\ UNCHANGED <<file, durable, runs, queued, now, env, procOf, ops>>

\* storage.update_job(job_id, {"status": "cancelled"})
CancelWrite(t) ==
  /\ At(t, "cancel_write")
  /\ LET jobs == ReadJobs(file)
         res == CancelResult(task[t].id, TRUE, <<"Job cancelled successfully">>)
     IN IF GetJob(jobs, task[t].id) = 0
        THEN Returns(t, task[t], res) /\ UNCHANGED now
        ELSE /\ Goes(t, [task[t] EXCEPT
                           !.pc = "w_open", !.res = res,
                           !.buf = UpdateJob(jobs, task[t].id, [status |-> "cancelled"], now)])
             /\ Tick
  /\ UNCHANGED <<file, durable, runs, queued, env, procOf, ops>>

\* ---- JobStorage.list_jobs / MonitoringTools.list_jobs ---------------------------
RECURSIVE SortDesc(_)
InsertDesc(x, sorted) ==
  LET k == Cardinality({i \in 1..Len(sorted) : sorted[i].created_at >= x.created_at})
  IN SubSeq(sorted, 1, k) \o <<x>> \o SubSeq(sorted, k + 1, Len(sorted))

SortDesc(jobs) ==
  IF jobs = << >> THEN << >>
  ELSE InsertDesc(jobs[Len(jobs)], SortDesc(SubSeq(jobs, 1, Len(jobs) - 1)))

list_jobs(jobs, status, limit, offset) ==
  LET filtered == IF status # "None" /\ status # "all"
                  THEN SelectSeq(jobs, LAMBDA j : j.status = status)
                  ELSE jobs
      sorted == SortDesc(filtered)
      skipped == IF offset # 0 THEN SubSeq(sorted, offset + 1, Len(sorted)) ELSE sorted
  IN IF limit # 0
     THEN SubSeq(skipped, 1, IF limit < Len(skipped) THEN limit ELSE Len(skipped))
     ELSE skipped

ListResult(jobs, status_filter) ==
  [kind |-> "list", jobs |-> jobs, total |-> Len(jobs), status_filter |-> status_filter]

ListInputs ==
  {[status |-> "all", limit |-> 10], [status |-> "pending", limit |-> 1],
   [status |-> "all", limit |-> 0]}

ListJobs(t, params) ==
  /\ Ready(t)
  /\ LET jobs == list_jobs(ReadJobs(file),
                           IF params.status # "all" THEN params.status ELSE "None",
                           params.limit, 0)
     IN Returns(t, Begin("list", NoId, <<params>>), ListResult(jobs, params.status))
  /\ UNCHANGED <<file, durable, runs, queued, now, env, procOf>>

\* ---- direct calls of the registry interface -----------------------------------------
UpdateInputs == {[status |-> "running"], [hardware |-> "a10g-large"]}

RegistryUpdate(t, id, updates) ==
  /\ Ready(t)
  /\ LET tk == Begin("update", id, <<updates>>)
         jobs == ReadJobs(file)
         new == UpdateJob(jobs, id, updates, now)
     IN IF GetJob(jobs, id) = 0
        THEN Returns(t, tk, [kind |-> "update", job |-> << >>]) /\ UNCHANGED now
        ELSE /\ Goes(t, [tk EXCEPT !.pc = "w_open", !.buf = new,
                                   !.res = [kind |-> "update",
                                            job |-> <<new[GetJob(jobs, id)]>>]])
             /\ Tick
  /\ UNCHANGED <<file, durable, runs, queued, env, procOf>>

\* ---- environment steps -----------------------------------------------------------------
BackendCreateRun ==
  /\ queued > 0
  /\ queued' = queued - 1
  /\ runs' = runs + 1
  /\ ret' = NoRet
  /\ UNCHANGED <<cancelled, file, durable, now, env, procOf, task, ops>>

\* a server process dies and is restarted: its handlers are gone, the file stays
Crash(p) ==
  /\ \E t \in Tasks : procOf[t] = p /\ task[t].pc # "idle"
  /\ task' = [t \in Tasks |-> IF procOf[t] = p THEN Idle ELSE task[t]]
  /\ ret' = NoRet
  /\ UNCHANGED <<cancelled, file, durable, runs, queued, now, env, procOf, ops>>

\* ---- MonitoringTools.stream_progress, served by GET /mcp/stream/{job_id} ----------
StreamTicks == 10     \* range(10)

TotalSteps == 1000    \* "total_steps": 1000

\* the update of iteration i - 1: progress in tenths, current_step
Snapshot(id, i) ==
  [kind |-> "progress", job_id |-> id, progress |-> i,
   current_step |-> i * 100, total_steps |-> TotalSteps]

\* progress >= 1.0, progress in tenths
Complete(progress) == progress >= 10

\* the generator hands res to the subscriber and stays suspended as tk
Yields(t, tk, res) ==
  /\ task' = [task EXCEPT ![t] = tk]
  /\ ret' = [t |-> t, op |-> tk.op, id |-> tk.id, arg |-> tk.arg, calls |-> tk.calls,
             res |-> res]
  /\ UNCHANGED cancelled

StreamInputs == {GhId(1)}

\* the endpoint of the MCP server starts the generator: first asyncio.sleep(2)
StreamProgress(t, id) ==
  /\ Ready(t)
  /\ procOf[t] = "mcp"
  /\ Goes(t, [Begin("stream", id, <<0>>) EXCEPT !.pc = "stream_sleep"])
  /\ UNCHANGED <<file, durable, runs, queued, now, env, procOf>>

\* the sleep is over: the next update is yielded; after the update with
\* progress 1.0 the loop is left
StreamTick(t) ==
  /\ At(t, "stream_sleep")
  /\ LET i == task[t].arg[1] + 1
         tk == [task[t] EXCEPT !.arg = <<i>>]
     IN IF Complete(i) \/ i = StreamTicks
        THEN Returns(t, tk, Snapshot(task[t].id, i))
        ELSE Yields(t, tk, Snapshot(task[t].id, i))
  /\ UNCHANGED <<file, durable, runs, queued, now, env, procOf, ops>>

\* the registry file outlives the servers: at start it is empty, or it holds
\* the job of an earlier submission, whose run the backend lists; that job is
\* still pending, or an earlier cancel_job has recorded it as cancelled
EarlierJob ==
  [JobData(SmallJob, estimate_cost(SmallJob, FALSE)) EXCEPT
     !.job_id = GhId(1), !.workflow_url = 1]

Init ==
  /\ \/ /\ durable = << >>
        /\ runs = 0
        /\ cancelled = {}
     \/ /\ durable = CreateRecord(<< >>, EarlierJob, 0)
        /\ runs = 1
        /\ cancelled = {}
     \/ /\ durable = UpdateJob(CreateRecord(<< >>, EarlierJob, 0), GhId(1),
                                [status |-> "cancelled"], 0)
        /\ runs = 1
        /\ cancelled = {GhId(1)}
  /\ file = Written(durable)
  /\ queued = 0
  /\ now = 0
  /\ ops = 0
  /\ env \in EnvChoices
  /\ procOf \in Layouts
  /\ ret = NoRet
  /\ task = [t \in Tasks |-> Idle]

Next ==
  \/ \E t \in Tasks, p \in CreateInputs : CreateJob(t, p)
  \/ \E t \in Tasks, reply \in DispatchReplies : DispatchReply(t, reply)
  \/ \E t \in Tasks : ListReply(t)
  \/ \E t \in Tasks : CreateWrite(t)
  \/ \E t \in Tasks, id \in JobIds : GetStatus(t, id)
  \/ \E t \in Tasks : \E reply \in RunReplies(task[t].id) : PollReply(t, reply)
  \/ \E t \in Tasks : PollWrite(t)
  \/ \E t \in Tasks, id \in JobIds : CancelJob(t, id)
  \/ \E t \in Tasks : \E reply \in CancelReplies(task[t].id) : CancelReply(t, reply)
  \/ \E t \in Tasks : CancelWrite(t)
  \/ \E t \in Tasks, params \in ListInputs : ListJobs(t, params)
  \/ \E t \in Tasks, id \in JobIds, u \in UpdateInputs : RegistryUpdate(t, id, u)
  \/ \E t \in Tasks, id \in StreamInputs : StreamProgress(t, id)
  \/ \E t \in Tasks : StreamTick(t)
  \/ \E t \in Tasks : WriteOpen(t)
  \/ \E t \in Tasks : WriteClose(t)
  \/ BackendCreateRun
  \/ \E p \in Procs : Crash(p)

Spec == Init /\ [][Next]_vars

TypeOK ==
  /\ file.torn \in BOOLEAN
  /\ now \in 0..MaxClock
  /\ queued \in 0..MaxRuns
  /\ runs \in 0..MaxRuns

\* ---- JobStorage.list_jobs over stored registries ------------------------------------
MaxLen == 3       \* records of a stored registry

ListStatuses == {"pending", "running", "completed"}

\* a record as storage.create_job stamped it at clock reading ts
StoredRecord(i, status, ts) ==
  [EarlierJob EXCEPT !.job_id = GhId(i), !.workflow_url = i, !.status = status,
                     !.created_at = ts, !.updated_at = ts]

\* registry files in append order: the creation stamps do not decrease
Registries ==
  UNION {{[i \in 1..n |-> StoredRecord(i, c[i].status, c[i].ts)] :
            c \in {d \in [1..n -> [status : ListStatuses, ts : 0..MaxClock]] :
                     \A i \in 1..n, j \in 1..n : i < j => d[i].ts <= d[j].ts}} :
         n \in 0..MaxLen}

RegistryListInputs == [status : {"None", "all", "pending"}, limit : {0, 1, 2},
                       offset : {0, 1}]

\* storage.list_jobs called directly, with an offset
RegistryList(t, q) ==
  /\ Ready(t)
  /\ Returns(t, Begin("registry_list", NoId, <<q>>),
             ListResult(list_jobs(ReadJobs(file), q.status, q.limit, q.offset),
                        q.status))
  /\ UNCHANGED <<file, durable, runs, queued, now, env, procOf>>

ListInit ==
  /\ durable \in Registries
  /\ file = Written(durable)
  /\ runs = 0
  /\ queued = 0
  /\ now = 0
  /\ ops = 0
  /\ env = [token |-> TRUE, hf_api |-> FALSE, hf_jobs |-> FALSE, budget |-> DefaultBudget]
  /\ procOf = [t \in Tasks |-> "mcp"]
  /\ ret = NoRet
  /\ cancelled = {}
  /\ task = [t \in Tasks |-> Idle]

ListNext ==
  \/ \E t \in Tasks, params \in ListInputs : ListJobs(t, params)
  \/ \E t \in Tasks, q \in RegistryListInputs : RegistryList(t, q)

ListSpec == ListInit /\ [][ListNext]_vars

\* ---- JobStorage.update_job on a stored registry -------------------------------------
\* update_job takes any dict of fields
RegistryUpdateInputs ==
  UpdateInputs \cup {[estimated_cost_usd |-> 0], [created_at |-> MaxClock]}

UpdateNext ==
  \/ \E t \in Tasks, id \in JobIds, u \in RegistryUpdateInputs : RegistryUpdate(t, id, u)
  \/ \E t \in Tasks : WriteOpen(t)
  \/ \E t \in Tasks : WriteClose(t)

\* registries of up to MaxLen pending jobs
StoredRegistries ==
  {[i \in 1..n |-> StoredRecord(i, "pending", 0)] : n \in 0..MaxLen}

UpdateInit ==
  /\ durable \in StoredRegistries
  /\ file = Written(durable)
  /\ runs = 0
  /\ queued = 0
  /\ now = 0
  /\ ops = 0
  /\ env = [token |-> TRUE, hf_api |-> FALSE, hf_jobs |-> FALSE, budget |-> DefaultBudget]
  /\ procOf = [t \in Tasks |-> "mcp"]
  /\ ret = NoRet
  /\ cancelled = {}
  /\ task = [t \in Tasks |-> Idle]

UpdateSpec == UpdateInit /\ [][UpdateNext]_vars

\* ---- TrainingTools.estimate_cost, the estimate_cost tool ------------------------------
MaxEpochs == 3    \* epoch counts of the estimates asked for

EstimateInputs ==
  {Params(m, d, "sft", h, e, b) :
     m \in {<<"0", ".", "5", "B">>, <<"7", "B">>},
     d \in {"open-r1/codeforces-cots", "openai/gsm8k", "Anthropic/hh-rlhf", "other"},
     h \in {"t4-small", "a100-large"},
     e \in 1..MaxEpochs,
     b \in {1, 8}}

EstimateResult(est) ==
  [kind |-> "estimate", estimated_cost_usd |-> est.estimated_cost_usd,
   estimated_time_minutes |-> est.estimated_time_minutes]

EstimateCost(t, p) ==
  /\ Ready(t)
  /\ Returns(t, Begin("estimate", NoId, <<p>>),
             EstimateResult(estimate_cost(p, env.hf_api)))
  /\ UNCHANGED <<file, durable, runs, queued, now, env, procOf>>

EstimateInit ==
  /\ durable = << >>
  /\ file = Written(durable)
  /\ runs = 0
  /\ queued = 0
  /\ now = 0
  /\ ops = 0
  /\ env \in EnvChoices
  /\ procOf = [t \in Tasks |-> "mcp"]
  /\ ret = NoRet
  /\ cancelled = {}
  /\ task = [t \in Tasks |-> Idle]

EstimateNext == \E t \in Tasks, p \in EstimateInputs : EstimateCost(t, p)

EstimateSpec == EstimateInit /\ [][EstimateNext]_vars

\* ==== properties ===================================================================
StoredIds == {GhId(r) : r \in 0..MaxRuns}

InFlight == {task[t].buf : t \in {u \in Tasks : task[u].pc = "w_close"}}

\* C1: a create_job whose estimate is strictly greater than the budget limit
\* returns the rejection with that estimate and that limit, has made no
\* backend call, and leaves the registry file and the backend as they were.
C1_RejectionHasNoEffect ==
  [][\A t \in Tasks, p \in CreateInputs :
       (/\ CreateJob(t, p)
        /\ AllPresent(p)
        /\ estimate_cost(p, env.hf_api).estimated_cost_usd > env.budget)
       => /\ ret'.t = t
          /\ ret'.res = Rejected(estimate_cost(p, env.hf_api).estimated_cost_usd, env.budget)
          /\ ret'.calls = 0
          /\ task'[t] = Idle
          /\ file' = file
          /\ durable' = durable
          /\ runs' = runs
          /\ queued' = queued]_vars

C1_Witness ==
  /\ ret.op = "create"
  /\ ret.res.kind = "rejected"
  /\ ret.res.estimated_cost > ret.res.budget_limit
  /\ Len(ReadJobs(file)) > 0

\* C2: once the status recorded for a job is completed, failed or cancelled,
\* no step changes the recorded status of that job.
C2_TerminalStatusIsFinal ==
  [][\A id \in StoredIds :
       StoredStatus(durable, id) \in Terminal
       => StoredStatus(durable', id) = StoredStatus(durable, id)]_vars

\* C3: a status poll whose run query was answered while the job was recorded
\* as non-terminal, and whose write-back runs after a cancel_job recorded
\* cancelled, does not take the recorded status back to a non-terminal one.
C3_PollDoesNotRevertCancel ==
  [][\A t \in Tasks :
       (/\ PollWrite(t)
        /\ task[t].arg # << >>
        /\ task[t].arg[1] \notin Terminal
        /\ task[t].id \in cancelled
        /\ StoredStatus(ReadJobs(file), task[t].id) \in Terminal)
       => StoredStatus(task'[t].buf, task[t].id) \in Terminal]_vars

\* C4: when an update of one handler completes right after an update of the
\* other handler on the same job returned, and the two set different fields,
\* the recorded job carries the values of both.
C4_NoLostUpdate ==
  [][\A t \in Tasks :
       (/\ WriteClose(t)
        /\ task[t].op = "update"
        /\ ret.op = "update"
        /\ ret.t # t
        /\ ret.id = task[t].id
        /\ ret.res.job # << >>
        /\ DOMAIN ret.arg[1] \cap DOMAIN task[t].arg[1] = {})
       => /\ Has(durable', task[t].id)
          /\ \E i \in 1..Len(durable') :
               /\ durable'[i].job_id = task[t].id
               /\ \A k \in DOMAIN ret.arg[1] : durable'[i][k] = ret.arg[1][k]
               /\ \A k \in DOMAIN task[t].arg[1] : durable'[i][k] = task[t].arg[1][k]]_vars

\* C5: a listing returns the records of a completely written registry: those
\* of the last completed write, or those a write in progress is writing.
C5_ListSeesCompleteRegistry ==
  ret.op = "list"
  => \E jobs \in {durable} \cup InFlight :
       ret.res.jobs = list_jobs(jobs,
                                IF ret.arg[1].status # "all" THEN ret.arg[1].status
                                ELSE "None",
                                ret.arg[1].limit, 0)

\* C6: cancel_job on a job recorded with a terminal status returns a success
\* result saying the job is already in that status, without a backend call
\* and without touching the registry.
C6_CancelOfTerminalJobSucceeds ==
  [][\A t \in Tasks, id \in JobIds :
       (CancelJob(t, id) /\ StoredStatus(ReadJobs(file), id) \in Terminal)
       => /\ ret'.res = CancelResult(id, TRUE,
                                     <<"Job is already", StoredStatus(ReadJobs(file), id)>>)
          /\ ret'.calls = 0
          /\ task'[t] = Idle
          /\ file' = file]_vars

\* C7: once a cancel_job has recorded cancelled for a job, every later
\* cancel_job on that id returns at once, without a further backend call.
C7_LaterCancelShortCircuits ==
  [][\A t \in Tasks, id \in JobIds :
       (CancelJob(t, id) /\ id \in cancelled)
       => /\ task'[t] = Idle
          /\ ret'.t = t
          /\ ret'.calls = 0]_vars

\* C8: when the run query of get_status or the cancel request of cancel_job
\* fails, the handler raises the failure and the registry is left as it was.
C8_BackendFailureLeavesRegistry ==
  [][\A t \in Tasks :
       (PollReply(t, FailedReply) \/ CancelReply(t, FailedReply))
       => /\ ret'.t = t
          /\ ret'.res = Error("BackendCallFailed")
          /\ task'[t] = Idle
          /\ file' = file
          /\ durable' = durable]_vars

C8_Witness ==
  /\ ret.op = "status"
  /\ ret.res = Error("BackendCallFailed")
  /\ StoredStatus(ReadJobs(file), ret.id) = "running"

\* C9: get_status on an id with no record in the registry does not return a
\* status result: it raises.
C9_StatusOfUnknownIdIsNotFound ==
  (ret.op = "status" /\ ~Has(durable, ret.id)) => ret.res.kind = "error"

\* C10: cancel_job on an id with no record in the registry raises NotFound
\* before any backend call and leaves the registry as it was.
C10_CancelOfUnknownIdIsNotFound ==
  [][\A t \in Tasks, id \in JobIds :
       (CancelJob(t, id) /\ ~Has(durable, id))
       => /\ ret'.t = t
          /\ ret'.res = Error("NotFound")
          /\ ret'.calls = 0
          /\ task'[t] = Idle
          /\ file' = file
          /\ durable' = durable
          /\ runs' = runs
          /\ queued' = queued]_vars

C10_Witness ==
  /\ ret.op = "cancel"
  /\ ret.res = Error("NotFound")
  /\ ~Has(durable, ret.id)
  /\ Len(ReadJobs(file)) > 0

\* C11: after a create_job that returned a submitted result, the registry
\* holds a record with the returned job id, status pending, the backend the
\* result names and the estimate the result carries.
C11_SubmittedJobIsRecorded ==
  (ret.op = "create" /\ ret.res.kind = "submitted")
  => \E i \in 1..Len(durable) :
       /\ durable[i].job_id = ret.res.job_id
       /\ durable[i].status = "pending"
       /\ durable[i].backend = ret.res.method
       /\ durable[i].estimated_cost_usd = ret.res.estimated_cost

\* C12: a create_job that passed the budget gate without a primary backend
\* goes on to the dispatch request when a token is configured; with no
\* backend at all, and when the dispatch request fails, it raises
\* NoBackendAvailable and the registry is left as it was.
C12_FallbackThenNoBackend ==
  [][\A t \in Tasks :
       /\ \A p \in CreateInputs :
            (/\ CreateJob(t, p)
             /\ AllPresent(p)
             /\ estimate_cost(p, env.hf_api).estimated_cost_usd <= env.budget
             /\ ~env.hf_jobs)
            => IF env.token
               THEN task'[t].pc = "dispatch_wait"
               ELSE /\ ret'.res = Error("NoBackendAvailable")
                    /\ file' = file
                    /\ durable' = durable
       /\ DispatchReply(t, FailedReply)
            => /\ ret'.t = t
               /\ ret'.res = Error("NoBackendAvailable")
               /\ file' = file
               /\ durable' = durable]_vars

\* C13: a create_job with model, dataset, method or hardware missing or empty
\* raises ValidationError without a backend call and without touching the
\* registry.
C13_MissingFieldIsRejected ==
  [][\A t \in Tasks, p \in CreateInputs :
       (/\ CreateJob(t, p)
        /\ (p.model = << >> \/ p.dataset = "" \/ p.method = "" \/ p.hardware = ""))
       => /\ ret'.t = t
          /\ ret'.res = Error("ValidationError")
          /\ ret'.calls = 0
          /\ task'[t] = Idle
          /\ file' = file
          /\ durable' = durable
          /\ runs' = runs
          /\ queued' = queued]_vars

C13_Witness ==
  /\ ret.op = "create"
  /\ ret.res = Error("ValidationError")
  /\ ret.arg[1].model # << >>
  /\ ret.arg[1].hardware = ""
  /\ Len(ReadJobs(file)) > 0

\* C14: no two records of the registry carry the same job id.
C14_JobIdsAreUnique ==
  \A i, j \in 1..Len(durable) : durable[i].job_id = durable[j].job_id => i = j

\* C15: whatever pair of raw status and raw conclusion the run query reports,
\* absent and unseen values included, the status the poll maps it to is one
\* of the canonical statuses, and the poll goes on to its write-back.
C15_MapperIsTotal ==
  [][\A t \in Tasks, raw \in RawReplies :
       PollReply(t, Reply(TRUE, raw))
       => /\ task'[t].pc = "poll_write"
          /\ task'[t].st \in Statuses]_vars

C15_Witness ==
  \E t \in Tasks :
    /\ task[t].op = "status"
    /\ task[t].pc = "poll_write"
    /\ task[t].st = "unknown"

\* mapping policy of the specification
MappingPolicy(rawStatus, rawConclusion) ==
  IF rawStatus \in {"queued", "waiting"} THEN "pending"
  ELSE IF rawStatus = "in_progress" THEN "running"
  ELSE IF rawStatus = "completed" /\ rawConclusion = "success" THEN "completed"
  ELSE IF rawStatus = "completed"
          /\ rawConclusion \in {"failure", "cancelled", "timed_out"} THEN "failed"
  ELSE "unknown"

\* C16: the status a poll maps a raw pair to is the one the mapping policy
\* gives for that pair.
C16_MapperFollowsPolicy ==
  [][\A t \in Tasks, raw \in RawReplies :
       PollReply(t, Reply(TRUE, raw))
       => task'[t].st = MappingPolicy(raw.status, raw.conclusion)]_vars

\* C17: the write-back of a status poll never takes the recorded status of
\* its job from running back to pending.
C17_RunningNeverBackToPending ==
  [][\A t \in Tasks :
       (/\ WriteClose(t)
        /\ task[t].op = "status"
        /\ StoredStatus(durable, task[t].id) = "running")
       => StoredStatus(durable', task[t].id) # "pending"]_vars

\* C18: a write completed by create_job, get_status or cancel_job keeps every
\* job id the registry held before it.
C18_RecordsAreNeverRemoved ==
  [][\A t \in Tasks :
       (WriteClose(t) /\ task[t].op \in {"create", "status", "cancel"})
       => \A id \in StoredIds : Has(durable, id) => Has(durable', id)]_vars

\* C19: every update the progress stream hands to its subscriber is the
\* result of a get_status call made for that interval, and after an update
\* whose status is terminal the stream has ended.
C19_StreamForwardsStatus ==
  [][\A t \in Tasks :
       StreamTick(t)
       => /\ ret'.res.kind = "status"
          /\ ret'.calls > 0
          /\ (ret'.res.status \in Terminal => task'[t] = Idle)]_vars

\* out is the slice [offset, offset + limit) of a sequence that holds the
\* records of jobs passing the filter, ordered by created_at descending
IsListing(jobs, filter, limit, offset, out) ==
  LET idx == {i \in 1..Len(jobs) : filter \in {"all", "None"} \/ jobs[i].status = filter}
      m == Cardinality(idx)
      last == IF offset + limit < m THEN offset + limit ELSE m
      n == IF last > offset THEN last - offset ELSE 0
  IN \E f \in [1..m -> idx] :
       /\ \A a \in 1..m, b \in 1..m : a # b => f[a] # f[b]
       /\ \A a \in 1..m, b \in 1..m :
            a < b => jobs[f[a]].created_at >= jobs[f[b]].created_at
       /\ Len(out) = n
       /\ \A k \in 1..n : out[k] = jobs[f[offset + k]]

\* C21: a listing is the slice [offset, offset + limit) of the records that
\* pass the status filter ("all" or no filter passes every record), ordered
\* by created_at descending.
C21_ListIsFilteredSortedSlice ==
  /\ ret.op = "list"
     => IsListing(ReadJobs(file), ret.arg[1].status, ret.arg[1].limit, 0, ret.res.jobs)
  /\ ret.op = "registry_list"
     => IsListing(ReadJobs(file), ret.arg[1].status, ret.arg[1].limit,
                  ret.arg[1].offset, ret.res.jobs)

\* C22: of two estimates for the same model, hardware and batch size, the one
\* with at least as many epochs and at least as large a dataset is not the
\* cheaper one; so two estimates for identical inputs are equal.
C22_CostIsMonotone ==
  [][(ret.op = "estimate" /\ ret'.op = "estimate")
       => LET p == ret.arg[1]
              q == ret'.arg[1]
          IN (/\ p.model = q.model
              /\ p.hardware = q.hardware
              /\ p.config.batch_size = q.config.batch_size
              /\ p.config.epochs <= q.config.epochs
              /\ estimate_dataset_size(p.dataset, env.hf_api)
                   <= estimate_dataset_size(q.dataset, env.hf_api))
             => /\ ret.res.estimated_cost_usd <= ret'.res.estimated_cost_usd
                /\ p = q => ret.res = ret'.res]_vars

C22_Witness ==
  /\ ret.op = "estimate"
  /\ ops > 1
  /\ ret.arg[1].config.epochs > 1
  /\ ret.arg[1].dataset = "Anthropic/hh-rlhf"
  /\ ~env.hf_api
  /\ ret.res.estimated_cost_usd > 0

\* C23: a stored status of "unknown" is not final: a cancel of such a job is
\* not answered from the registry but sent to the backend (or refused for the
\* missing token), and a status query that finds the job stored as "unknown"
\* writes the freshly mapped status over it.
C23_UnknownIsNotTerminal ==
  [][\A t \in Tasks :
       /\ \A id \in JobIds :
            (CancelJob(t, id) /\ StoredStatus(ReadJobs(file), id) = "unknown")
              => IF env.token
                 THEN task'[t].pc = "cancel_wait" /\ task'[t].calls = 1
                 ELSE ret'.t = t /\ ret'.res = Error("TokenMissing")
       /\ (PollWrite(t) /\ StoredStatus(ReadJobs(file), task[t].id) = "unknown")
            => /\ task'[t].pc = "w_open"
               /\ StoredStatus(task'[t].buf, task[t].id) = task[t].st]_vars

C23_Witness ==
  \E t \in Tasks :
    /\ task[t].op = "cancel"
    /\ task[t].pc = "cancel_wait"
    /\ StoredStatus(ReadJobs(file), task[t].id) = "unknown"
    /\ StoredStatus(durable, task[t].id) = "unknown"

\* C24: when a status query on a job held in the registry returns a status,
\* the registry holds that status for the job.
C24_StoredStatusIsReturnedStatus ==
  [][\A t \in Tasks :
       (/\ task[t].op = "status"
        /\ task'[t] = Idle
        /\ ret'.t = t
        /\ ret'.res.kind = "status"
        /\ Has(durable, task[t].id))
         => StoredStatus(durable', task[t].id) = ret'.res.status]_vars

\* C25: a job that CreateJob has just reported as submitted carries the "gh-"
\* prefix exactly when it went through the workflow dispatch, and a status
\* query or a cancel for its id is taken to the backend that accepted it, on
\* the id alone: the workflow branch for a "gh-" id, the primary-backend
\* branch for any other id.
C25_RoutingFollowsIdPrefix ==
  [][(ret.op = "create" /\ ret.res.kind = "submitted")
       => LET id == ret.res.job_id
          IN /\ (ret.res.method = "github_actions") <=> StartsWithGh(id)
             /\ \A t \in Tasks :
                  /\ GetStatus(t, id)
                       => IF StartsWithGh(id)
                          THEN \/ task'[t].pc = "poll_wait"
                               \/ ret'.res = Error("TokenMissing")
                          ELSE ret'.res = HfStatusResult(id)
                  /\ CancelJob(t, id)
                       => IF StartsWithGh(id)
                          THEN ret'.res # Error("NotImplemented")
                          ELSE /\ task'[t].pc # "cancel_wait"
                               /\ ret'.res = Error("NotImplemented")]_vars

\* C26: an update of a stored id rewrites the registry with that record's
\* provided fields and updated_at changed and everything else as read; an
\* update of an id that is not stored returns no record and writes nothing.
C26_UpdateTouchesOnlyGivenFields ==
  [][\A t \in Tasks :
       /\ \A id \in JobIds, u \in RegistryUpdateInputs :
            RegistryUpdate(t, id, u)
              => LET jobs == ReadJobs(file)
                     i == GetJob(jobs, id)
                     new == task'[t].buf
                 IN IF i = 0
                    THEN /\ task'[t] = Idle
                         /\ ret'.t = t
                         /\ ret'.res = [kind |-> "update", job |-> << >>]
                         /\ file' = file
                         /\ durable' = durable
                    ELSE /\ task'[t].pc = "w_open"
                         /\ Len(new) = Len(jobs)
                         /\ \A j \in 1..Len(jobs) : j # i => new[j] = jobs[j]
                         /\ DOMAIN new[i] = DOMAIN jobs[i]
                         /\ \A k \in DOMAIN jobs[i] :
                              new[i][k] = IF k = "updated_at" THEN now
                                          ELSE IF k \in DOMAIN u THEN u[k]
                                          ELSE jobs[i][k]
                         /\ task'[t].res.job = <<new[i]>>
       /\ (WriteClose(t) /\ task[t].op = "update")
            => durable' = task[t].buf /\ file' = Written(task[t].buf)]_vars

C26_Witness ==
  /\ ret.op = "update"
  /\ ret.res.kind = "update"
  /\ ret.res.job # << >>
  /\ ret.arg = <<[hardware |-> "a10g-large"]>>
  /\ Len(durable) > 1
  /\ file = Written(durable)
  /\ \E i, j \in 1..Len(durable) :
       /\ durable[i].job_id = ret.id
       /\ durable[i].hardware = "a10g-large"
       /\ durable[j].hardware = "t4-small"

\* C27: the registry a status query, a cancel or an update is about to write
\* has, record by record, the job_id, created_at, estimated_cost_usd and
\* estimated_time_minutes of the registry it read.
C27_CreationFieldsAreFrozen ==
  [][\A t \in Tasks :
       (/\ task'[t].op \in {"status", "cancel", "update"}
        /\ task[t].pc # "w_open"
        /\ task'[t].pc = "w_open")
         => LET jobs == ReadJobs(file)
                new == task'[t].buf
            IN /\ Len(new) = Len(jobs)
               /\ \A j \in 1..Len(jobs) :
                    /\ new[j].job_id = jobs[j].job_id
                    /\ new[j].created_at = jobs[j].created_at
                    /\ new[j].estimated_cost_usd = jobs[j].estimated_cost_usd
                    /\ new[j].estimated_time_minutes = jobs[j].estimated_time_minutes]_vars

\* C28: a write that completes for one job id leaves every stored record of
\* any other id in the registry, unchanged.
C28_OtherIdsAreUntouched ==
  [][\A t \in Tasks :
       (WriteClose(t) /\ task[t].op \in {"create", "status", "cancel", "update"})
         => \A j \in 1..Len(durable) :
              durable[j].job_id # task[t].id
                => \E k \in 1..Len(durable') : durable'[k] = durable[j]]_vars

\* C29: the run a create_job takes from the run listing is a run (the id is
\* never built from an absent run), and it is not the run of another
\* submission: no stored job and no other create in flight has that id.
C29_JobIsBoundToItsOwnRun ==
  [][\A t \in Tasks :
       (ListReply(t) /\ task'[t].pc = "create_write")
         => /\ task'[t].id # GhId(NoRun)
            /\ ~Has(durable, task'[t].id)
            /\ \A u \in Tasks \ {t} :
                 ~(/\ task[u].op = "create"
                   /\ task[u].pc \in {"create_write", "w_open", "w_close"}
                   /\ task[u].id = task'[t].id)]_vars

\* C30: the record a create_job appends carries the estimate computed for its
\* request, the one the budget gate compared, and that estimate is not greater
\* than the budget limit (equal to it is allowed); the write stores that record.
C30_StoredJobPassedTheBudgetGate ==
  [][\A t \in Tasks :
       /\ CreateWrite(t)
            => LET new == task'[t].buf
                   rec == new[Len(new)]
                   est == estimate_cost(task[t].arg[1], env.hf_api)
               IN /\ rec.job_id = task[t].id
                  /\ rec.estimated_cost_usd = est.estimated_cost_usd
                  /\ rec.estimated_cost_usd <= env.budget
       /\ (WriteClose(t) /\ task[t].op = "create")
            => /\ durable'[Len(durable')].job_id = task[t].id
               /\ durable'[Len(durable')].estimated_cost_usd <= env.budget]_vars

C30_Witness ==
  /\ ret.op = "create"
  /\ ret.res.kind = "submitted"
  /\ ret.res.method = "github_actions"
  /\ Len(durable) > 0
  /\ durable[Len(durable)].job_id = ret.res.job_id
  /\ durable[Len(durable)].estimated_cost_usd = env.budget
  /\ durable[Len(durable)].estimated_cost_usd = ret.res.estimated_cost

====
